---- MODULE Spec2Model ----
(***************************************************************************)
(* A model of EventPublisher<E> (src/src/lib.rs): the handler registry,    *)
(* subscribe_handler, unsubscribe_handler with its two search helpers,     *)
(* publish_event and publish_event_multithreaded.                          *)
(*                                                                         *)
(* A registry entry is an Arc<Box<Fn>>.  Two addresses belong to it:       *)
(*   arc : the address of the Box stored inside the Arc allocation, which  *)
(*         is what `&**a as *const _` denotes in the sort_by closure of    *)
(*         subscribe_handler, where a : &Arc<Box<Fn>> (line 37);           *)
(*   fn  : the address of the boxed callable itself, which is what         *)
(*         `&**self.handlers[mid]` denotes in unsub_common_match and       *)
(*         recursive_unsub_search, where self.handlers[mid] is the Arc     *)
(*         itself (lines 62 and 85), and what `&*handler_box` denotes for  *)
(*         the candidate (lines 61 and 83).                                *)
(* Every live Arc allocation has its own address; the address of a boxed   *)
(* callable can be shared by several entries (boxes of zero-sized closures *)
(* all hold the same dangling address).  Indices are 0-based as in the     *)
(* source; handlers[i] of the source is Nth(handlers, i).                  *)
(***************************************************************************)
EXTENDS Integers, Sequences, FiniteSets, TLC

\* ---------------------------------------------------------------- bounds
MaxHandlers == 3
NumFn == 2

ArcAddrs == 1..MaxHandlers
FnAddrs == 1..NumFn

\* usize arithmetic is modular (line 91); the width is scaled down from 64
\* bits to 16 so that the model checker's integers can hold it.  The
\* registry of the model is far shorter than half of the modulus, as a Vec
\* is far shorter than 2^63.
UsizeMod == 2 ^ 16

\* Event<E> (lines 9-12): a payload or the Missing marker.
Events == {[tag |-> "Args", val |-> 42], [tag |-> "Missing", val |-> 0]}

\* What `event` holds while no publish has been made since the last registry call.
NoEvent == [tag |-> "Missing", val |-> 0]

VARIABLES
    handlers,        \* self.handlers: Seq of [arc, fn]
    pc,              \* where the caller is: "idle", inside a publish, "panicked"
    last,            \* the call made last: its arguments, registry before, result
    tick,            \* one bit that tells a subscribe/unsubscribe call from the one before
    event,           \* the event of the publish in progress (or of the last one)
    idx,             \* position of the for loop of the publish in progress
    log,             \* handler invocations of the current publish, in order
    guards,          \* status of the thread behind each JoinGuard
    joined,          \* number of guards already dropped (joined)
    shared_event,    \* strong count of the Arc around the event, 0 = released
    nsub             \* subscribe calls since new(), while no unsubscribe call was made

vars == <<handlers, pc, last, tick, event, idx, log, guards,
          joined, shared_event, nsub>>

\* ------------------------------------------------------------ sequences
Nth(s, i) == s[i + 1]

\* Vec::remove(i): drops the element at 0-based index i, keeps the rest in order.
VecRemove(s, i) == [k \in 1..(Len(s) - 1) |-> IF k <= i THEN s[k] ELSE s[k + 1]]

RECURSIVE InsertSorted(_, _)
InsertSorted(s, e) ==
    IF s = <<>> THEN <<e>>
    ELSE IF e.arc < s[Len(s)].arc
         THEN Append(InsertSorted(SubSeq(s, 1, Len(s) - 1), e), s[Len(s)])
         ELSE Append(s, e)

\* sort_by(|a,b| (&**a as *const _).cmp(&(&**b as *const _))): a stable sort on
\* the address of the Box inside each Arc.
RECURSIVE sort_by(_)
sort_by(s) ==
    IF s = <<>> THEN <<>>
    ELSE InsertSorted(sort_by(SubSeq(s, 1, Len(s) - 1)), s[Len(s)])

\* ------------------------------------------------------------ subscribe
subscribe_push_only(hs, e) == Append(hs, e)

subscribe_merging(hs, e) ==
    IF \E i \in 1..Len(hs) : hs[i].fn = e.fn THEN hs ELSE sort_by(Append(hs, e))

\* subscribe_handler, lines 36-37: push, then sort the whole vector.
subscribe_result(hs, e) == sort_by(Append(hs, e))

\* ---------------------------------------------------------- unsubscribe
Step(f, l, m, u) == [fn |-> f, l_bound |-> l, mid |-> m, u_bound |-> u]

Outcome(r, hs, st) == [result |-> r, handlers |-> hs, steps |-> st]

RECURSIVE unsub_common_match(_, _, _, _, _, _, _)
RECURSIVE recursive_unsub_search(_, _, _, _, _, _)

\* lines 60-74.  hs: the registry, p: the candidate's callable address,
\* oc: overflow checks, st: the search steps made so far.
unsub_common_match(hs, p, l_bound, mid, u_bound, oc, st) ==
    LET st2 == Append(st, Step("unsub_common_match", l_bound, mid, u_bound)) IN
    IF mid >= Len(hs)
    THEN Outcome("panic", hs, st2)                \* index out of bounds, line 62
    ELSE IF p < Nth(hs, mid).fn
    THEN IF mid = 0
         THEN recursive_unsub_search(hs, p, l_bound, mid, oc, st2)
         ELSE recursive_unsub_search(hs, p, l_bound, mid - 1, oc, st2)
    ELSE IF p > Nth(hs, mid).fn
    THEN recursive_unsub_search(hs, p, mid, u_bound, oc, st2)
    ELSE Outcome("true", VecRemove(hs, mid), st2)

recursive_unsub_search_removing(hs, p, l_bound, u_bound, oc, st) ==
    LET st2 == Append(st, Step("recursive_unsub_search", l_bound, l_bound, u_bound)) IN
    IF l_bound = u_bound
    THEN IF l_bound >= Len(hs)
         THEN Outcome("panic", hs, st2)
         ELSE Outcome(IF p = Nth(hs, l_bound).fn THEN "true" ELSE "false",
                      VecRemove(hs, l_bound), st2)
    ELSE IF oc /\ l_bound < u_bound
    THEN Outcome("panic", hs, st2)
    ELSE LET half == ((l_bound - u_bound) % UsizeMod) \div 2
             sum  == l_bound + half
         IN  IF oc /\ sum >= UsizeMod
             THEN Outcome("panic", hs, st2)
             ELSE unsub_common_match(hs, p, l_bound, sum % UsizeMod, u_bound, oc, st2)

\* lines 82-93.  The test of line 85 compares the two pointers themselves; it
\* is modelled as equality of the callable addresses, as at line 62.
recursive_unsub_search(hs, p, l_bound, u_bound, oc, st) ==
    LET st2 == Append(st, Step("recursive_unsub_search", l_bound, l_bound, u_bound)) IN
    IF l_bound = u_bound
    THEN IF l_bound >= Len(hs)
         THEN Outcome("panic", hs, st2)           \* index out of bounds, line 85
         ELSE IF p = Nth(hs, l_bound).fn
              THEN Outcome("true", hs, st2)       \* line 86: true, nothing removed
              ELSE Outcome("false", hs, st2)
    ELSE IF oc /\ l_bound < u_bound
    THEN Outcome("panic", hs, st2)                \* l_bound - u_bound overflows
    ELSE LET half == ((l_bound - u_bound) % UsizeMod) \div 2
             sum  == l_bound + half
         IN  IF oc /\ sum >= UsizeMod
             THEN Outcome("panic", hs, st2)
             ELSE unsub_common_match(hs, p, l_bound, sum % UsizeMod, u_bound, oc, st2)

unsubscribe_unguarded(hs, p, oc) ==
    unsub_common_match(hs, p, 0, Len(hs) \div 2, (Len(hs) - 1) % UsizeMod, oc, <<>>)

\* lines 43-52.
unsubscribe_result(hs, p, oc) ==
    LET len == Len(hs) IN
    IF len = 0
    THEN Outcome("false", hs, <<>>)
    ELSE unsub_common_match(hs, p, 0, len \div 2, len - 1, oc, <<>>)

\* ------------------------------------------------------------- the calls
NoCall == [op |-> "new", arg |-> 0, arc |-> 0, result |-> "returned",
           pre |-> <<>>, steps |-> <<>>]

Call(o, a, c, r, p, st) ==
    [op |-> o, arg |-> a, arc |-> c, result |-> r, pre |-> p, steps |-> st]

\* nsub once unsubscribe_handler has been called: the calls are no longer counted.
NotCounted == 0 - 1

Counted(n) == IF n = NotCounted THEN NotCounted ELSE n + 1

LiveArcs == {handlers[i].arc : i \in 1..Len(handlers)}

\* EventPublisher::new(), lines 25-29.
Init ==
    /\ handlers = <<>>
    /\ pc = "idle"
    /\ last = NoCall
    /\ tick = 0
    /\ event = NoEvent
    /\ idx = 0
    /\ log = <<>>
    /\ guards = <<>>
    /\ joined = 0
    /\ shared_event = 0
    /\ nsub = 0

subscribe_handler_reentrant(f, a) ==
    /\ Len(handlers) < MaxHandlers
    /\ a \notin LiveArcs
    /\ handlers' = subscribe_result(handlers, [arc |-> a, fn |-> f])
    /\ last' = Call("subscribe", f, a, "returned", handlers, <<>>)
    /\ tick' = 1 - tick
    /\ nsub' = Counted(nsub)
    /\ UNCHANGED <<pc, event, idx, log, guards, joined, shared_event>>

\* subscribe_handler(handler_box): Arc::new places the box at a free address.
\* subscribe_handler and unsubscribe_handler take &mut self, the publish
\* functions &self, and handlers are Fn + Send + Sync closures handed over by
\* value: no registry call can run while a publish is in progress.
subscribe_handler(f, a) ==
    /\ pc = "idle"
    /\ Len(handlers) < MaxHandlers
    /\ a \notin LiveArcs
    /\ handlers' = subscribe_result(handlers, [arc |-> a, fn |-> f])
    /\ last' = Call("subscribe", f, a, "returned", handlers, <<>>)
    /\ tick' = 1 - tick
    /\ log' = <<>>
    /\ guards' = <<>>
    /\ joined' = 0
    /\ event' = NoEvent
    /\ idx' = 0
    /\ nsub' = Counted(nsub)
    /\ UNCHANGED <<pc, shared_event>>

\* unsubscribe_handler(handler_box), with the helpers it calls.  oc: whether
\* the build checks arithmetic overflow (a debug build does, a release build
\* wraps); it matters only to calls that end in a panic.
unsubscribe_handler(p, oc) ==
    /\ pc = "idle"
    /\ LET out == unsubscribe_result(handlers, p, oc) IN
          /\ handlers' = out.handlers
          /\ last' = Call("unsubscribe", p, 0, out.result, handlers, out.steps)
          /\ pc' = IF out.result = "panic" THEN "panicked" ELSE "idle"
    /\ tick' = 1 - tick
    /\ log' = <<>>
    /\ guards' = <<>>
    /\ joined' = 0
    /\ event' = NoEvent
    /\ idx' = 0
    /\ nsub' = NotCounted
    /\ UNCHANGED shared_event

\* ------------------------------------------------------ publish_event
DeliveryOfCopy(h, ev) == [arc |-> h.arc, fn |-> h.fn, ev |-> NoEvent]

\* handler(event), line 100, and handler(&cloned_event), line 111: the handler
\* is handed a reference to the caller's event itself.
Delivery(h, ev) == [arc |-> h.arc, fn |-> h.fn, ev |-> ev]

\* publish_event, line 98: the call begins; nothing has been delivered yet.
publish_event_begin(ev) ==
    /\ pc = "idle"
    /\ pc' = "publish_event"
    /\ event' = ev
    /\ idx' = 0
    /\ log' = <<>>
    /\ guards' = <<>>
    /\ joined' = 0
    /\ last' = Call("publish_event", ev, 0, "running", handlers, <<>>)
    /\ tick' = 0
    /\ UNCHANGED <<handlers, nsub, shared_event>>

iter_skip(i) == i + 2

\* self.handlers.iter() advances by one element, line 99.
iter_next(i) == i + 1

caught == "publish_event"

\* Where the caller is after handler(event) has panicked at line 100: nothing
\* in publish_event catches the panic, it unwinds out of the loop and the function.
unwound == "panicked"

\* One turn of the for loop, lines 99-101: handler(event) on the calling
\* thread.  A handler that panics unwinds out of publish_event.
publish_event_call(ok) ==
    /\ pc = "publish_event"
    /\ idx < Len(handlers)
    /\ log' = Append(log, Delivery(Nth(handlers, idx), event))
    /\ IF ok
       THEN /\ idx' = iter_next(idx)
            /\ UNCHANGED <<pc, last>>
       ELSE /\ pc' = unwound
            /\ last' = [last EXCEPT !.result = "panic"]
            /\ UNCHANGED idx
    /\ UNCHANGED <<handlers, nsub, tick, event, guards, joined, shared_event>>

\* The iterator is exhausted: publish_event returns, line 102.
publish_event_return ==
    /\ pc = "publish_event"
    /\ idx >= Len(handlers)
    /\ pc' = "idle"
    /\ last' = [last EXCEPT !.result = "returned"]
    /\ UNCHANGED <<handlers, nsub, tick, event, idx, log, guards, joined,
                   shared_event>>

\* ---------------------------------------- publish_event_multithreaded
Terminated == {"done", "panicked"}

publish_mt_begin_taking(ev) ==
    /\ pc = "idle"
    /\ pc' = "publish_mt"
    /\ event' = ev
    /\ idx' = 0
    /\ log' = <<>>
    /\ guards' = <<>>
    /\ joined' = 0
    /\ shared_event' = 1
    /\ last' = Call("publish_event_multithreaded", ev, 0, "running", handlers, <<>>)
    /\ tick' = 0
    /\ handlers' = <<>>
    /\ UNCHANGED nsub

\* lines 105-106: shared_event = Arc::new(event), guards = Vec::new().
publish_mt_begin(ev) ==
    /\ pc = "idle"
    /\ pc' = "publish_mt"
    /\ event' = ev
    /\ idx' = 0
    /\ log' = <<>>
    /\ guards' = <<>>
    /\ joined' = 0
    /\ shared_event' = 1
    /\ last' = Call("publish_event_multithreaded", ev, 0, "running", handlers, <<>>)
    /\ tick' = 0
    /\ UNCHANGED <<handlers, nsub>>

moved_first_handler(hs, i) == Nth(hs, 0)

\* The handler the closure of line 111 captures: the loop variable of line 108.
moved_handler(hs, i) == Nth(hs, i)

\* One turn of the for loop, lines 108-112: clone the Arc, spawn a scoped
\* thread for the handler and push its JoinGuard.
publish_mt_spawn ==
    /\ pc = "publish_mt"
    /\ idx < Len(handlers)
    /\ guards' = Append(guards, [h |-> moved_handler(handlers, idx), st |-> "spawned"])
    /\ shared_event' = shared_event + 1
    /\ idx' = iter_next(idx)
    /\ UNCHANGED <<handlers, nsub, pc, last, tick, event, log, joined>>

\* The spawned thread enters its closure and calls handler(&cloned_event), line 111.
thread_start(t) ==
    /\ t \in 1..Len(guards)
    /\ guards[t].st = "spawned"
    /\ guards' = [guards EXCEPT ![t].st = "running"]
    /\ log' = Append(log, Delivery(guards[t].h, event))
    /\ UNCHANGED <<handlers, nsub, pc, last, tick, event, idx, joined,
                   shared_event>>

\* The handler returns or panics; the closure's cloned_event is dropped either way.
thread_finish(t, ok) ==
    /\ t \in 1..Len(guards)
    /\ guards[t].st = "running"
    /\ guards' = [guards EXCEPT ![t].st = IF ok THEN "done" ELSE "panicked"]
    /\ shared_event' = shared_event - 1
    /\ UNCHANGED <<handlers, nsub, pc, last, tick, event, idx, log, joined>>

join_without_waiting(g) == TRUE

\* A JoinGuard (line 6, from Thread::scoped) joins its thread when it is
\* dropped: the drop blocks until the thread has terminated, and the thread's
\* result (a panic included) is thrown away.
join_completes(g) == g.st \in Terminated

\* End of the function, line 113: guards is dropped, its elements front to back.
publish_mt_join ==
    /\ pc = "publish_mt"
    /\ idx >= Len(handlers)
    /\ joined < Len(guards)
    /\ join_completes(guards[joined + 1])
    /\ joined' = joined + 1
    /\ UNCHANGED <<handlers, nsub, pc, last, tick, event, idx, log, guards,
                   shared_event>>

\* All guards dropped; shared_event is dropped and the function returns.
publish_mt_return ==
    /\ pc = "publish_mt"
    /\ idx >= Len(handlers)
    /\ joined = Len(guards)
    /\ shared_event' = shared_event - 1
    /\ pc' = "idle"
    /\ last' = [last EXCEPT !.result = "returned"]
    /\ UNCHANGED <<handlers, nsub, tick, event, idx, log, guards, joined>>

\* ------------------------------------------------------------ behaviours
Subscribe == \E f \in FnAddrs, a \in ArcAddrs : subscribe_handler(f, a)

Unsubscribe == \E p \in FnAddrs, oc \in BOOLEAN : unsubscribe_handler(p, oc)

PublishBegin == \E ev \in Events : publish_event_begin(ev)

PublishCall == \E ok \in BOOLEAN : publish_event_call(ok)

PublishMtBegin == \E ev \in Events : publish_mt_begin(ev)

ThreadStart == \E t \in 1..MaxHandlers : thread_start(t)

ThreadFinish == \E t \in 1..MaxHandlers, ok \in BOOLEAN : thread_finish(t, ok)

Next ==
    \/ Subscribe
    \/ Unsubscribe
    \/ PublishBegin
    \/ PublishCall
    \/ publish_event_return
    \/ PublishMtBegin
    \/ publish_mt_spawn
    \/ ThreadStart
    \/ ThreadFinish
    \/ publish_mt_join
    \/ publish_mt_return

Spec == Init /\ [][Next]_vars

\* ------------------------------------------------------------ properties
Matches(hs, p) == {i \in 1..Len(hs) : hs[i].fn = p}

FnCount(hs, f) == Cardinality(Matches(hs, f))

SameMembers(a, b) == Len(a) = Len(b) /\ \A f \in FnAddrs : FnCount(a, f) = FnCount(b, f)

SortedByArc(hs) == \A i, j \in 1..Len(hs) : i < j => hs[i].arc <= hs[j].arc

Deliveries(hs, ev) == [i \in 1..Len(hs) |-> Delivery(hs[i], ev)]

IsPrefix(a, b) == Len(a) <= Len(b) /\ a = SubSeq(b, 1, Len(a))

TimesInvoked(h) == Cardinality({i \in 1..Len(log) : log[i].arc = h.arc})

Unsubscribed == last.op = "unsubscribe"

SeqPublish == last.op = "publish_event"

MtPublish == last.op = "publish_event_multithreaded"

\* A step that is a call of unsubscribe_handler with the argument of the call before it.
UnsubscribeAgain == last'.op = "unsubscribe" /\ tick' # tick /\ last'.arg = last.arg

\* C1: unsubscribe of a handler that has an entry in the registry returns true
\* (it neither returns false nor panics), at any position and registry size.
C1_UnsubscribeOfMemberReturnsTrue ==
    (Unsubscribed /\ Matches(last.pre, last.arg) # {}) => last.result = "true"

\* C2: whenever unsubscribe returns true, the registry has lost exactly one
\* entry, that entry has the candidate's key, and all other entries are kept
\* in their order.
C2_TrueRemovesExactlyOne ==
    (Unsubscribed /\ last.result = "true") =>
        \E i \in Matches(last.pre, last.arg) : handlers = VecRemove(last.pre, i - 1)

\* C3: unsubscribe of a handler whose key matches no entry returns false (and
\* does not panic), for a registry of any size.
C3_UnsubscribeOfStrangerReturnsFalse ==
    (Unsubscribed /\ Matches(last.pre, last.arg) = {}) => last.result = "false"

\* C4: after unsubscribe(h) has returned true for a handler h that had one
\* entry, the next unsubscribe(h) returns false.
C4_SecondUnsubscribeReturnsFalse ==
    [][(Unsubscribed /\ last.result = "true" /\ FnCount(last.pre, last.arg) = 1
        /\ UnsubscribeAgain) => last'.result = "false"]_vars

\* C5: subscribe(h) immediately followed by unsubscribe(h) leaves the registry
\* with the size and the members it had before the subscribe.
C5_SubscribeUnsubscribeRoundTrip ==
    [][(last.op = "subscribe" /\ UnsubscribeAgain) => SameMembers(handlers', last.pre)]_vars

\* C6: in every reachable state the registry is in non-decreasing order of the
\* key subscribe_handler sorts by (the address of the box inside each Arc).
C6_RegistrySorted == SortedByArc(handlers)

\* C6 witness: a subscribe into a registry of two whose new entry the sort
\* moved to the front.
C6_Witness ==
    /\ last.op = "subscribe"
    /\ Len(handlers) = 3
    /\ handlers[1].arc = last.arc

\* C7 as stated: a sequential publish that has ended (returned or unwound)
\* has invoked every handler registered at the call, once each, in registry order.
C7_Original ==
    (SeqPublish /\ last.result # "running") => log = Deliveries(last.pre, event)

\* C7 as amended: a sequential publish invokes the handlers in registry
\* (sort key) order, each at most once; when it returns every handler
\* registered at the call has been invoked exactly once; when a handler fails
\* the publish ends with that handler as the last one invoked.
C7_SequentialPublishInOrder ==
    SeqPublish =>
        /\ IsPrefix(log, Deliveries(last.pre, event))
        /\ \A i, j \in 1..Len(log) : i < j => log[i].arc < log[j].arc
        /\ last.result = "returned" => Len(log) = Len(last.pre)
        /\ last.result = "panic" => Len(log) >= 1

\* C7 witness: a sequential publish to three handlers has returned.
C7_Witness == SeqPublish /\ last.result = "returned" /\ Len(log) = 3

\* C8: when publish_event_multithreaded has returned, every handler of the
\* registry has a thread and each of these threads has terminated; the event
\* is released only then.
C8_ReturnsAfterAllThreads ==
    MtPublish =>
        /\ last.result = "returned" =>
              /\ Len(guards) = Len(last.pre)
              /\ \A t \in 1..Len(guards) : guards[t].st \in Terminated
        /\ shared_event = 0 => last.result = "returned"

\* C8 witness: a concurrent publish to two or more handlers has returned,
\* and its threads ran in another order than they were spawned in.
C8_Witness ==
    /\ MtPublish
    /\ last.result = "returned"
    /\ Len(guards) >= 2
    /\ log # Deliveries(last.pre, event)

\* C9: a concurrent publish never invokes a handler twice nor a handler that
\* was not registered at the call, and when it returns every handler
\* registered at the call has been invoked exactly once.
C9_ConcurrentExactlyOnce ==
    MtPublish =>
        /\ \A i \in 1..Len(log) : \E k \in 1..Len(last.pre) :
               log[i] = Delivery(last.pre[k], event)
        /\ \A k \in 1..Len(last.pre) : TimesInvoked(last.pre[k]) <= 1
        /\ last.result = "returned" =>
               \A k \in 1..Len(last.pre) : TimesInvoked(last.pre[k]) = 1

\* C9 witness: a concurrent publish to three handlers has returned after the
\* last spawned thread ran first.
C9_Witness ==
    /\ MtPublish
    /\ last.result = "returned"
    /\ Len(last.pre) = 3
    /\ log[1].arc = last.pre[3].arc

\* C10: if a handler fails during publish_event_multithreaded the caller does
\* not see a normal return.
C10_FailureReachesCaller ==
    (MtPublish /\ last.result = "returned") =>
        \A t \in 1..Len(guards) : guards[t].st # "panicked"

\* C11: sequential publish is fail-fast: when the handler at position i fails
\* the failure leaves publish_event at once, the handlers before i and the
\* handler at i have each been invoked once, in order, and no handler after i
\* has been invoked.
C11_SequentialFailFast ==
    (SeqPublish /\ last.result = "panic") =>
        /\ pc = "panicked"
        /\ idx < Len(last.pre)
        /\ log = SubSeq(Deliveries(last.pre, event), 1, idx + 1)

\* C11 witness: the second of three handlers failed.
C11_Witness ==
    /\ SeqPublish
    /\ last.result = "panic"
    /\ Len(last.pre) = 3
    /\ idx = 1

InFlight == pc \in {"publish_event", "publish_mt"}

\* C12: while a publish (sequential or concurrent) is in flight no subscribe
\* or unsubscribe takes effect: the registry stays the one the publish began
\* with, the call in progress stays that publish, and every delivery made is
\* to an entry of that registry.
C12_PublishOverFixedRegistry ==
    [][InFlight =>
          /\ handlers' = last.pre
          /\ last'.op = last.op
          /\ last'.pre = last.pre
          /\ \A i \in 1..Len(log') : \E k \in 1..Len(last.pre) :
                 log'[i] = Delivery(last.pre[k], event)]_vars

\* C12 witness: a concurrent publish over two handlers is half way: one
\* thread spawned and running, the second handler not yet spawned.
C12_Witness ==
    /\ pc = "publish_mt"
    /\ Len(last.pre) = 2
    /\ idx = 1
    /\ Len(log) = 1

\* C13: from a new publisher, after n subscribe calls and no unsubscribe call
\* the registry holds exactly n entries, each in its own Arc, handlers with
\* the same callable included; the last subscribe returned normally and its
\* entry is in the registry.
C13_SizeCountsSubscribes ==
    nsub # NotCounted =>
        /\ Len(handlers) = nsub
        /\ Cardinality(LiveArcs) = nsub
        /\ last.op = "subscribe" =>
              /\ last.result = "returned"
              /\ \E i \in 1..Len(handlers) : handlers[i] = [arc |-> last.arc, fn |-> last.arg]
              /\ \A f \in FnAddrs :
                     FnCount(handlers, f) =
                         FnCount(last.pre, f) + (IF f = last.arg THEN 1 ELSE 0)

\* C13 witness: three subscribes, no unsubscribe, two of the handlers with
\* the same callable address.
C13_Witness ==
    /\ nsub = 3
    /\ last.op = "subscribe"
    /\ FnCount(handlers, last.arg) = 2

\* C14: unsubscribe on an empty registry returns false for every handler
\* argument, without a search step, and leaves the registry empty.
C14_UnsubscribeOnEmpty ==
    (Unsubscribed /\ last.pre = <<>>) =>
        /\ last.result = "false"
        /\ last.steps = <<>>
        /\ handlers = <<>>

\* C14 witness: unsubscribe was called on an empty registry.
C14_Witness == Unsubscribed /\ last.pre = <<>> /\ last.arg = NumFn

\* C15: in both publish strategies every invoked handler receives the event
\* that was passed to the publish (same tag, same payload); once the publish
\* has returned each registered handler has received it exactly once.
C15_SameEventDelivered ==
    (SeqPublish \/ MtPublish) =>
        /\ \A i \in 1..Len(log) : log[i].ev = last.arg
        /\ last.result = "returned" =>
              \A k \in 1..Len(last.pre) :
                  Cardinality({i \in 1..Len(log) :
                      log[i] = [arc |-> last.pre[k].arc, fn |-> last.pre[k].fn,
                                ev |-> last.arg]}) = 1

\* C15 witness: handlers A, B, C subscribed, Args(42) published by either
\* strategy, the publish has returned.
C15_Witness ==
    /\ SeqPublish \/ MtPublish
    /\ last.result = "returned"
    /\ last.arg = [tag |-> "Args", val |-> 42]
    /\ Len(log) = 3
    /\ \A i \in 1..3 : log[i].ev.val = 42

\* C16: every search step of an unsubscribe call is a standard bisection
\* step: 0 <= l_bound <= mid <= u_bound <= len - 1, every index read is
\* within the registry, and when recursive_unsub_search computes a midpoint
\* (l_bound # u_bound) the subtraction l_bound - u_bound does not go below zero.
C16_StandardBisectionSteps ==
    Unsubscribed =>
        \A k \in 1..Len(last.steps) :
            LET s == last.steps[k] IN
            /\ 0 <= s.l_bound
            /\ s.l_bound <= s.mid
            /\ s.mid <= s.u_bound
            /\ s.u_bound <= Len(last.pre) - 1
            /\ (s.fn = "recursive_unsub_search" /\ s.l_bound # s.u_bound)
                   => s.l_bound - s.u_bound >= 0

Width(s) == s.u_bound - s.l_bound

\* C17: every unsubscribe call reaches a result (true or false) after
\* finitely many steps, each Less/Greater step handing recursive_unsub_search
\* a range inside the one it had and strictly smaller (a range of one element,
\* which cannot shrink, is handed on as it is).
C17_SearchShrinksToResult ==
    Unsubscribed =>
        /\ last.result \in {"true", "false"}
        /\ \A k \in 1..(Len(last.steps) - 1) :
               LET s == last.steps[k]
                   t == last.steps[k + 1]
               IN  (s.fn = "unsub_common_match" /\ t.fn = "recursive_unsub_search") =>
                       /\ s.l_bound <= t.l_bound
                       /\ t.u_bound <= s.u_bound
                       /\ Width(t) < Width(s) \/ Width(s) = 0

\* C18: the registry is in non-decreasing order of the key unsubscribe's
\* search compares (the address of the boxed callable), because it is the
\* key subscribe sorts by.
C18_SortedBySearchKey ==
    \A i, j \in 1..Len(handlers) : i < j => handlers[i].fn <= handlers[j].fn

\* C19: the registry changes only in a step that is a subscribe or an
\* unsubscribe call; during and after a publish of either kind, ended
\* normally or by a failing handler, it is the registry the publish began with.
C19_PublishLeavesRegistry ==
    [][/\ handlers' # handlers =>
             (last'.op \in {"subscribe", "unsubscribe"} /\ tick' # tick)
       /\ last'.op \in {"publish_event", "publish_event_multithreaded"} =>
             handlers' = last'.pre]_vars

\* C19 witness: a concurrent publish over two or more handlers has returned
\* although one of the handlers failed.
C19_Witness ==
    /\ MtPublish
    /\ last.result = "returned"
    /\ Len(handlers) >= 2
    /\ \E t \in 1..Len(guards) : guards[t].st = "panicked"

\* C20: whenever unsubscribe returns false the registry is exactly as it was
\* before the call: same entries, same order.
C20_FalseLeavesRegistry ==
    (Unsubscribed /\ last.result = "false") => handlers = last.pre

\* C20 witness: unsubscribe searched a registry of two and returned false.
C20_Witness ==
    /\ Unsubscribed
    /\ last.result = "false"
    /\ Len(last.pre) = 2
    /\ Len(last.steps) = 2

====
